---- MODULE Spec2Model ----
(***************************************************************************)
(* Model of contract_executor_t (clustering/table_contract/executor.cc):   *)
(* the reconciler that matches the replicated contract mapping against the *)
(* table of live executions, the blocking teardown of executions, the ack  *)
(* routing, and the update pump that schedules update_blocking.            *)
(***************************************************************************)
EXTENDS Integers, Sequences, FiniteSets, TLC

\* ------------------------------------------------------------------ bounds
\* Number of contract ids the replicated state ever issues (ids are fresh).
MaxCid == 3

\* Cap of the count of passes since the last change of the mapping.
MaxPasses == 3

\* ------------------------------------------------------------ value spaces
Nil == "nil"
NoPrimary == "none"

server_id == "s1"
Servers == {"s1", "s2", "s3"}
Branches == {"b1", "b2"}
\* The reconciler never reads an ack: one value stands for contract_ack_t.
Acks == {"ack"}
CidSet == 1..MaxCid

\* Regions are half-open intervals <<lo, hi>> of the key space.
Regions == {<<0, 2>>, <<1, 3>>, <<2, 4>>}

region_overlaps(r1, r2) == r1[1] < r2[2] /\ r2[1] < r1[2]

\* contract_t: optional primary, replica set, branch.
AllContracts ==
    [primary : Servers \cup {NoPrimary}, replicas : SUBSET Servers, branch : Branches]

\* The contracts the replicated state hands to this node in the reconciler
\* model: one per role this node can derive.
Contracts ==
    { [primary |-> "s1", replicas |-> {"s1", "s2"}, branch |-> "b1"],
      [primary |-> "s2", replicas |-> {"s1", "s2"}, branch |-> "b1"],
      [primary |-> "s2", replicas |-> {"s2"}, branch |-> "b1"] }

Pairs == Regions \X Contracts

VARIABLES
    contracts,    \* raft_state: contract id -> <<region, contract>>
    next_id,      \* next fresh contract id
    executions,   \* key -> [contract_id, execution]
    workers,      \* key -> set of contract ids the running execution holds ackers for
    ack_map,      \* contract id -> ack (entries of this server)
    running,      \* update_pumper: a run coroutine exists
    queued,       \* update_pumper: a further run was requested
    coros,        \* number of coroutines running the pump's callback loop
    pc,           \* position of the reconciler coroutine
    todo,         \* contract ids the diff loop has not visited yet
    dont_delete,  \* update(): keys wanted by the snapshot
    to_delete,    \* update_blocking(): the deletion set returned by update()
    td_left,      \* keys of to_delete the teardown loop has not reached yet
    cur,          \* <<key the teardown loop is at>>, or <<>>
    phase,        \* index into TeardownSteps for cur
    calls,        \* log of the effects of the reconciler's current unit of work
    last_ack,     \* <<the send_ack call made since the reconciler last ran>>, or <<>>
    superseded,   \* <<key, contract id>> pairs a pass replaced by a newer contract id
    unseen,       \* the contract mapping changed after the last snapshot
    crashed,      \* "none", or which lookup failed
    created,      \* keys the pass in progress has created an execution for
    skipped,      \* keys whose creation the pass in progress has skipped
    passes,       \* snapshots taken by this run of the pump since the last change
    tore,         \* the last pass that returned from update() had deletions
    kin,          \* key derivation: the input <<self, <<region, contract>>>>
    kout          \* key derivation: <<the derived key>>, or <<>>

vars == <<contracts, next_id, executions, workers, ack_map, running, queued, coros,
          pc, todo, dont_delete, to_delete, td_left, cur, phase, calls, last_ack,
          superseded, unseen, crashed, created, skipped, passes, tore, kin, kout>>

keyvars == <<kin, kout>>
raftvars == <<contracts, next_id>>
pumpvars == <<running, queued, coros>>
diffvars == <<todo, dont_delete>>
tdvars == <<to_delete, td_left, cur, phase>>
passvars == <<created, skipped, passes, tore>>

\* ------------------------------------------------------------------ helpers
Min(S) == CHOOSE x \in S : \A y \in S : x <= y

Remove(f, k) == [x \in DOMAIN f \ {k} |-> f[x]]

Put(f, k, v) == [x \in DOMAIN f \cup {k} |-> IF x = k THEN v ELSE f[x]]

\* ---------------------------------------------------------- key derivation
get_contract_key_ReplicaFirst(self, pair) ==
    LET c == pair[2] IN
    IF self \in c.replicas
    THEN [region |-> pair[1], role |-> "secondary",
          primary |-> IF c.primary # NoPrimary THEN c.primary ELSE Nil,
          branch |-> c.branch]
    ELSE IF c.primary # NoPrimary /\ c.primary = self
    THEN [region |-> pair[1], role |-> "primary", primary |-> Nil, branch |-> Nil]
    ELSE [region |-> pair[1], role |-> "erase", primary |-> Nil, branch |-> Nil]

get_contract_key(self, pair) ==
    LET c == pair[2] IN
    IF c.primary # NoPrimary /\ c.primary = self
    THEN [region |-> pair[1], role |-> "primary", primary |-> Nil, branch |-> Nil]
    ELSE IF self \in c.replicas
    THEN [region |-> pair[1], role |-> "secondary",
          primary |-> IF c.primary # NoPrimary THEN c.primary ELSE Nil,
          branch |-> c.branch]
    ELSE [region |-> pair[1], role |-> "erase", primary |-> Nil, branch |-> Nil]

\* ------------------------------------------------------------- ack routing
\* send_ack on a given table and ack map: found is FALSE when executions.at(key)
\* throws; wrote tells whether set_key_no_equals ran; am is the ack map
\* afterwards.
send_ack_NoStaleCheck(ex, am, key, cid, ack) ==
    IF key \notin DOMAIN ex THEN [found |-> FALSE, wrote |-> FALSE, am |-> am]
    ELSE [found |-> TRUE, wrote |-> TRUE, am |-> Put(am, cid, ack)]

send_ack(ex, am, key, cid, ack) ==
    IF key \notin DOMAIN ex THEN [found |-> FALSE, wrote |-> FALSE, am |-> am]
    ELSE IF ex[key].contract_id = cid
         THEN [found |-> TRUE, wrote |-> TRUE, am |-> Put(am, cid, ack)]
    ELSE [found |-> TRUE, wrote |-> FALSE, am |-> am]

\* ------------------------------------------------------------------- pump
\* update_pumper.notify(): start a run, or remember the request.
PumpNotify(r, q, c) ==
    IF r THEN [running |-> TRUE, queued |-> TRUE, coros |-> c]
    ELSE [running |-> TRUE, queued |-> q, coros |-> c + 1]

\* The pump's loop after the callback returns: run again if a request is
\* queued, otherwise stop.
PumpAfterRun(q, c) ==
    IF q THEN [running |-> TRUE, queued |-> FALSE, coros |-> c, pc |-> "start"]
    ELSE [running |-> FALSE, queued |-> FALSE, coros |-> c - 1, pc |-> "idle"]

\* raft_state_subs: the subscription's callback on a change of raft_state.
raft_state_subs_NoNotify(r, q, c) == [running |-> r, queued |-> q, coros |-> c]

raft_state_subs(r, q, c) == PumpNotify(r, q, c)

\* update_blocking's request for another run after its deletions.
RerunAfterDelete_SpawnDirectly(r, q, c) == [running |-> r, queued |-> q, coros |-> c + 1]

RerunAfterDelete_Nothing(r, q, c) == [running |-> r, queued |-> q, coros |-> c]

RerunAfterDelete(r, q, c) == PumpNotify(r, q, c)

\* Other coroutines run only while the reconciler is not on the CPU: before a
\* spawned run starts, between runs, and while execution.reset() blocks.
Observable == pc \in {"idle", "spawned", "blocked"}

Alive == crashed = "none"

\* --------------------------------------------------------------- the diff
Ev(op, key, cid) == [op |-> op, key |-> key, cid |-> cid]

\* What the execution does with its ackers inside update_contract or its
\* constructor: nothing, or one ack through an acker it holds.
SyncChoices == {<<>>} \cup {<<[cid |-> c, ack |-> a]>> : c \in CidSet, a \in Acks}

SyncAck(ex, wk, am, key, sync) ==
    IF sync # <<>> /\ sync[1].cid \in wk[key]
    THEN send_ack(ex, am, key, sync[1].cid, sync[1].ack).am
    ELSE am

SyncLog(wk, key, sync) ==
    IF sync # <<>> /\ sync[1].cid \in wk[key]
    THEN <<Ev("send_ack", key, sync[1].cid)>>
    ELSE <<>>

\* The overlap guard of update(): no live execution's region overlaps region.
ok_to_create_Always(ex, region) == TRUE

ok_to_create_Never(ex, region) == FALSE

ok_to_create_PrePassOnly(ex, region) ==
    \A old \in DOMAIN ex \ created : ~region_overlaps(old.region, region)

ok_to_create(ex, region) ==
    \A old \in DOMAIN ex : ~region_overlaps(old.region, region)

\* update(), key found with another contract id: update the existing execution.
update_existing_KeepOldAck(ex, wk, am, key, cid, sync) ==
    LET ex1 == [ex EXCEPT ![key].contract_id = cid]
        wk1 == [wk EXCEPT ![key] = @ \cup {cid}]
    IN [ex |-> ex1, wk |-> wk1, am |-> SyncAck(ex1, wk1, am, key, sync),
        calls |-> <<Ev("set_contract_id", key, cid), Ev("update_contract", key, cid)>>
                  \o SyncLog(wk1, key, sync)]

update_existing_AckerFirst(ex, wk, am, key, cid, sync) ==
    LET old_contract_id == ex[key].contract_id
        ex1 == [ex EXCEPT ![key].contract_id = cid]
        wk1 == [wk EXCEPT ![key] = @ \cup {cid}]
        am1 == SyncAck(ex, wk1, am, key, sync)
    IN [ex |-> ex1, wk |-> wk1, am |-> Remove(am1, old_contract_id),
        calls |-> <<Ev("update_contract", key, cid)>>
                  \o SyncLog(wk1, key, sync)
                  \o <<Ev("set_contract_id", key, cid),
                       Ev("delete_ack", key, old_contract_id)>>]

update_existing(ex, wk, am, key, cid, sync) ==
    LET old_contract_id == ex[key].contract_id
        ex1 == [ex EXCEPT ![key].contract_id = cid]
        wk1 == [wk EXCEPT ![key] = @ \cup {cid}]
        am1 == SyncAck(ex1, wk1, am, key, sync)
    IN [ex |-> ex1, wk |-> wk1, am |-> Remove(am1, old_contract_id),
        calls |-> <<Ev("set_contract_id", key, cid), Ev("update_contract", key, cid)>>
                  \o SyncLog(wk1, key, sync)
                  \o <<Ev("delete_ack", key, old_contract_id)>>]

\* update(), key not found and creation allowed: create the execution.
create_execution_FirstId(ex, wk, am, key, cid, sync) ==
    LET ex1 == Put(ex, key, [contract_id |-> 1, execution |-> TRUE])
        wk1 == Put(wk, key, {1})
    IN [ex |-> ex1, wk |-> wk1, am |-> SyncAck(ex1, wk1, am, key, sync),
        calls |-> <<Ev("insert", key, 1), Ev("construct", key, 1)>>
                  \o SyncLog(wk1, key, sync)]

create_execution(ex, wk, am, key, cid, sync) ==
    LET ex1 == Put(ex, key, [contract_id |-> cid, execution |-> TRUE])
        wk1 == Put(wk, key, {cid})
    IN [ex |-> ex1, wk |-> wk1, am |-> SyncAck(ex1, wk1, am, key, sync),
        calls |-> <<Ev("insert", key, cid), Ev("construct", key, cid)>>
                  \o SyncLog(wk1, key, sync)]

\* One iteration of update()'s loop over new_state.contracts.
update_one_AlwaysUpdate(ex, wk, am, cid, pair, sync) ==
    LET key == get_contract_key(server_id, pair) IN
    IF key \in DOMAIN ex
    THEN update_existing(ex, wk, am, key, cid, sync)
    ELSE IF ok_to_create(ex, pair[1])
         THEN create_execution(ex, wk, am, key, cid, sync)
         ELSE [ex |-> ex, wk |-> wk, am |-> am, calls |-> <<Ev("skip", key, cid)>>]

update_one(ex, wk, am, cid, pair, sync) ==
    LET key == get_contract_key(server_id, pair) IN
    IF key \in DOMAIN ex
    THEN IF ex[key].contract_id # cid
         THEN update_existing(ex, wk, am, key, cid, sync)
         ELSE [ex |-> ex, wk |-> wk, am |-> am, calls |-> <<>>]
    ELSE IF ok_to_create(ex, pair[1])
         THEN create_execution(ex, wk, am, key, cid, sync)
         ELSE [ex |-> ex, wk |-> wk, am |-> am, calls |-> <<Ev("skip", key, cid)>>]

\* update()'s final loop: the live keys no contract of the snapshot wants.
deletion_set_AllLive(ex, dd) == DOMAIN ex

deletion_set_WantedNotLive(ex, dd) == {k \in dd : k \notin DOMAIN ex}

deletion_set(ex, dd) == {k \in DOMAIN ex : k \notin dd}

\* ----------------------------------------------------------- initial state
\* The state after the constructor: no executions, the subscription set up
\* and update_pumper.notify() called once.
Init ==
    /\ contracts = <<>>
    /\ next_id = 1
    /\ executions = <<>>
    /\ workers = <<>>
    /\ ack_map = <<>>
    /\ running = PumpNotify(FALSE, FALSE, 0).running
    /\ queued = PumpNotify(FALSE, FALSE, 0).queued
    /\ coros = PumpNotify(FALSE, FALSE, 0).coros
    /\ pc = "spawned"
    /\ todo = {}
    /\ dont_delete = {}
    /\ to_delete = {}
    /\ td_left = {}
    /\ cur = <<>>
    /\ phase = 0
    /\ calls = <<>>
    /\ last_ack = <<>>
    /\ superseded = {}
    /\ unseen = FALSE
    /\ crashed = "none"
    /\ created = {}
    /\ skipped = {}
    /\ passes = 0
    /\ tore = FALSE
    /\ kin = <<>>
    /\ kout = <<>>

\* ------------------------------------------------------ the replicated state
\* raft_state changes and its subscription notifies the pump.
RaftNotified ==
    LET p == raft_state_subs(running, queued, coros) IN
    /\ running' = p.running
    /\ queued' = p.queued
    /\ coros' = p.coros
    /\ pc' = IF pc = "idle" /\ p.running THEN "spawned" ELSE pc
    /\ unseen' = TRUE
    /\ calls' = <<>>
    /\ last_ack' = <<>>
    /\ passes' = 0
    /\ UNCHANGED <<executions, workers, ack_map, diffvars, tdvars, superseded, crashed,
                   created, skipped, tore, keyvars>>

AddContract ==
    /\ Alive /\ Observable
    /\ next_id <= MaxCid
    /\ \E pair \in Pairs : contracts' = Put(contracts, next_id, pair)
    /\ next_id' = next_id + 1
    /\ RaftNotified

RemoveContract ==
    /\ Alive /\ Observable
    /\ \E cid \in DOMAIN contracts : contracts' = Remove(contracts, cid)
    /\ UNCHANGED next_id
    /\ RaftNotified

\* ------------------------------------------------------------- executions
\* A running execution calls an acker it was given.
SendAck(key, cid, ack) ==
    /\ Alive /\ Observable
    /\ key \in DOMAIN workers
    /\ cid \in workers[key]
    /\ LET r == send_ack(executions, ack_map, key, cid, ack) IN
       /\ ack_map' = r.am
       /\ crashed' = IF r.found THEN crashed ELSE "at"
       /\ last_ack' = <<[key |-> key, cid |-> cid, wrote |-> r.wrote,
                         stale |-> key \notin DOMAIN executions
                                   \/ executions[key].contract_id # cid]>>
    /\ UNCHANGED <<raftvars, executions, workers, pumpvars, pc, diffvars, tdvars,
                   calls, superseded, unseen, passvars, keyvars>>

ExecutionAcks == \E key \in DOMAIN workers : \E cid \in CidSet, ack \in Acks :
    SendAck(key, cid, ack)

\* -------------------------------------------------------- update_blocking
\* The pump's coroutine calls update_blocking, which reads raft_state.
BeginPass ==
    /\ Alive
    /\ pc \in {"spawned", "start"}
    /\ pc' = "diff"
    /\ todo' = DOMAIN contracts
    /\ dont_delete' = {}
    /\ to_delete' = {}
    /\ td_left' = {}
    /\ cur' = <<>>
    /\ phase' = 0
    /\ unseen' = FALSE
    /\ calls' = <<>>
    /\ last_ack' = <<>>
    /\ created' = {}
    /\ skipped' = {}
    /\ passes' = IF passes < MaxPasses THEN passes + 1 ELSE passes
    /\ UNCHANGED <<raftvars, executions, workers, ack_map, pumpvars, superseded,
                   crashed, tore, keyvars>>

\* The <<key, contract id>> an iteration of update() replaces by cid.
Superseding(ex, cid, pair) ==
    LET key == get_contract_key(server_id, pair) IN
    IF key \in DOMAIN ex /\ ex[key].contract_id # cid
    THEN {<<key, ex[key].contract_id>>}
    ELSE {}

\* The keys of the events of kind op in a log.
Keys(log, op) == {log[i].key : i \in {j \in 1..Len(log) : log[j].op = op}}

\* update(): one iteration of the loop over new_state.contracts, in the
\* order of the contract ids.
DiffStep ==
    /\ Alive
    /\ pc = "diff"
    /\ todo # {}
    /\ LET cid == Min(todo)
           pair == contracts[cid]
       IN /\ \E sync \in SyncChoices :
                LET r == update_one(executions, workers, ack_map, cid, pair, sync) IN
                /\ executions' = r.ex
                /\ workers' = r.wk
                /\ ack_map' = r.am
                /\ calls' = r.calls
                /\ created' = created \cup Keys(r.calls, "insert")
                /\ skipped' = skipped \cup Keys(r.calls, "skip")
          /\ dont_delete' = dont_delete \cup {get_contract_key(server_id, pair)}
          /\ todo' = todo \ {cid}
          /\ superseded' = superseded \cup Superseding(executions, cid, pair)
    /\ last_ack' = <<>>
    /\ UNCHANGED <<raftvars, pumpvars, pc, tdvars, unseen, crashed, passes, tore,
                   keyvars>>

\* update(): the loop over executions that fills to_delete_out, and the
\* return, which ends dont_delete; back in update_blocking, the test of
\* to_delete.empty().
DiffFinish ==
    /\ Alive
    /\ pc = "diff"
    /\ todo = {}
    /\ to_delete' = deletion_set(executions, dont_delete)
    /\ td_left' = to_delete'
    /\ pc' = IF to_delete' = {} THEN "ret" ELSE "teardown"
    /\ dont_delete' = {}
    /\ calls' = <<>>
    /\ created' = {}
    /\ skipped' = {}
    /\ tore' = (to_delete' # {})
    /\ UNCHANGED <<raftvars, executions, workers, ack_map, pumpvars, todo, cur,
                   phase, last_ack, superseded, unseen, crashed, passes, keyvars>>

\* The order of the steps update_blocking takes for one key of to_delete.
TeardownSteps_AckFirst == <<"delete_ack", "reset", "erase">>

TeardownSteps_EraseFirst == <<"erase", "reset", "delete_ack">>

TeardownSteps == <<"reset", "delete_ack", "erase">>

\* Where update_blocking goes after step ph of the current key.
AfterStep(ph, left) ==
    IF ph < Len(TeardownSteps) THEN [pc |-> "step", phase |-> ph + 1]
    ELSE [pc |-> IF left = {} THEN "notify" ELSE "teardown", phase |-> 0]

\* The teardown loop reaches its next key: executions.find(key) and the
\* guarantee on it.
TeardownFind ==
    /\ Alive
    /\ pc = "teardown"
    /\ \E key \in td_left :
         /\ td_left' = td_left \ {key}
         /\ IF key \in DOMAIN executions
            THEN /\ cur' = <<key>>
                 /\ phase' = 1
                 /\ pc' = "step"
                 /\ crashed' = crashed
            ELSE /\ cur' = <<>>
                 /\ phase' = 0
                 /\ pc' = pc
                 /\ crashed' = "guarantee"
    /\ calls' = <<>>
    /\ UNCHANGED <<raftvars, executions, workers, ack_map, pumpvars, diffvars,
                   to_delete, last_ack, superseded, unseen, passvars,
                   keyvars>>

\* execution.reset() is called and blocks.
TeardownReset ==
    /\ Alive
    /\ pc = "step"
    /\ TeardownSteps[phase] = "reset"
    /\ pc' = "blocked"
    /\ last_ack' = <<>>
    /\ UNCHANGED <<raftvars, executions, workers, ack_map, pumpvars, diffvars, tdvars,
                   calls, superseded, unseen, crashed, passvars,
                   keyvars>>

\* The execution has shut down: execution.reset() returns.
ResetComplete ==
    /\ Alive
    /\ pc = "blocked"
    /\ LET key == cur[1]
           nxt == AfterStep(phase, td_left)
       IN /\ workers' = Remove(workers, key)
          /\ executions' = IF key \in DOMAIN executions
                           THEN [executions EXCEPT ![key].execution = FALSE]
                           ELSE executions
          /\ calls' = Append(calls, Ev("reset", key, 0))
          /\ pc' = nxt.pc
          /\ phase' = nxt.phase
    /\ UNCHANGED <<raftvars, ack_map, pumpvars, diffvars, to_delete, td_left, cur,
                   last_ack, superseded, unseen, crashed, passvars,
                   keyvars>>

\* ack_map.delete_key of the contract id recorded in the entry.
TeardownDeleteAck ==
    /\ Alive
    /\ pc = "step"
    /\ TeardownSteps[phase] = "delete_ack"
    /\ LET key == cur[1]
           nxt == AfterStep(phase, td_left)
       IN /\ IF key \in DOMAIN executions
             THEN /\ ack_map' = Remove(ack_map, executions[key].contract_id)
                  /\ calls' = Append(calls,
                                     Ev("delete_ack", key, executions[key].contract_id))
                  /\ crashed' = crashed
             ELSE /\ ack_map' = ack_map
                  /\ calls' = calls
                  /\ crashed' = "dangling"
          /\ pc' = nxt.pc
          /\ phase' = nxt.phase
    /\ UNCHANGED <<raftvars, executions, workers, pumpvars, diffvars, to_delete,
                   td_left, cur, last_ack, superseded, unseen, passvars,
                   keyvars>>

\* executions.erase(it).
TeardownErase ==
    /\ Alive
    /\ pc = "step"
    /\ TeardownSteps[phase] = "erase"
    /\ LET key == cur[1]
           nxt == AfterStep(phase, td_left)
       IN /\ executions' = Remove(executions, key)
          /\ calls' = Append(calls, Ev("erase", key, 0))
          /\ pc' = nxt.pc
          /\ phase' = nxt.phase
    /\ UNCHANGED <<raftvars, workers, ack_map, pumpvars, diffvars, to_delete, td_left,
                   cur, last_ack, superseded, unseen, crashed, passvars,
                   keyvars>>

\* After the deletions: update_pumper.notify(), and update_blocking returns.
TeardownNotify ==
    /\ Alive
    /\ pc = "notify"
    /\ LET p == RerunAfterDelete(running, queued, coros) IN
       /\ running' = p.running
       /\ queued' = p.queued
       /\ coros' = p.coros
    /\ pc' = "ret"
    /\ cur' = <<>>
    /\ calls' = <<>>
    /\ last_ack' = <<>>
    /\ UNCHANGED <<raftvars, executions, workers, ack_map, diffvars, to_delete,
                   td_left, phase, superseded, unseen, crashed, passvars,
                   keyvars>>

\* update_blocking has returned to the pump, which ends to_delete.
PumpReturn ==
    /\ Alive
    /\ pc = "ret"
    /\ LET p == PumpAfterRun(queued, coros) IN
       /\ running' = p.running
       /\ queued' = p.queued
       /\ coros' = p.coros
       /\ pc' = p.pc
       /\ passes' = IF p.running THEN passes ELSE 0
       /\ tore' = (p.running /\ tore)
    /\ to_delete' = {}
    /\ UNCHANGED <<raftvars, executions, workers, ack_map, diffvars, td_left, cur,
                   phase, calls, last_ack, superseded, unseen, crashed, created,
                   skipped, keyvars>>

Reconciler ==
    \/ BeginPass
    \/ DiffStep
    \/ DiffFinish
    \/ TeardownFind
    \/ TeardownReset
    \/ TeardownDeleteAck
    \/ TeardownErase
    \/ TeardownNotify
    \/ PumpReturn

Next ==
    \/ AddContract
    \/ RemoveContract
    \/ ExecutionAcks
    \/ BeginPass
    \/ DiffStep
    \/ DiffFinish
    \/ TeardownFind
    \/ TeardownReset
    \/ ResetComplete
    \/ TeardownDeleteAck
    \/ TeardownErase
    \/ TeardownNotify
    \/ PumpReturn

Spec == Init /\ [][Next]_vars

\* The coroutine scheduler runs a runnable reconciler, and every execution's
\* shutdown terminates.
FairSpec == Spec /\ WF_vars(Reconciler) /\ WF_vars(ResetComplete)

\* ------------------------------------------- key derivation on its own
\* get_contract_key applied to every server identity, region and contract.
KeyInputs == Servers \X (Regions \X AllContracts)

InitKey ==
    /\ contracts = <<>>
    /\ next_id = 1
    /\ executions = <<>>
    /\ workers = <<>>
    /\ ack_map = <<>>
    /\ running = FALSE
    /\ queued = FALSE
    /\ coros = 0
    /\ pc = "idle"
    /\ todo = {}
    /\ dont_delete = {}
    /\ to_delete = {}
    /\ td_left = {}
    /\ cur = <<>>
    /\ phase = 0
    /\ calls = <<>>
    /\ last_ack = <<>>
    /\ superseded = {}
    /\ unseen = FALSE
    /\ crashed = "none"
    /\ created = {}
    /\ skipped = {}
    /\ passes = 0
    /\ tore = FALSE
    /\ kin \in KeyInputs
    /\ kout = <<>>

nonkeyvars == <<contracts, next_id, executions, workers, ack_map, running, queued,
                coros, pc, todo, dont_delete, to_delete, td_left, cur, phase, calls,
                last_ack, superseded, unseen, crashed, created, skipped, passes,
                tore>>

DeriveKey ==
    /\ kout = <<>>
    /\ kout' = <<get_contract_key(kin[1], kin[2])>>
    /\ UNCHANGED <<kin, nonkeyvars>>

NextInput ==
    /\ kout # <<>>
    /\ kin' \in KeyInputs
    /\ kout' = <<>>
    /\ UNCHANGED nonkeyvars

NextKey ==
    \/ DeriveKey
    \/ NextInput

SpecKey == InitKey /\ [][NextKey]_vars

\* ================================================================ claims
Live == DOMAIN executions

Wanted == {get_contract_key(server_id, contracts[c]) : c \in DOMAIN contracts}

Ops(log) == [i \in 1..Len(log) |-> log[i].op]

IsPrefix(a, b) == Len(a) <= Len(b) /\ \A i \in 1..Len(a) : a[i] = b[i]

\* C1: in every reachable state, also inside a pass and while a teardown is
\* blocked in shutdown, the regions of any two distinct keys of the live
\* execution table do not overlap; so an execution for a region whose role
\* changed is created only once the old entry is gone from the table.
C1_NoOverlap ==
    \A k1 \in Live : \A k2 \in Live :
        k1 # k2 => ~region_overlaps(k1.region, k2.region)

\* A pass has just skipped creating the Erase execution of a region because
\* the Secondary execution of that region is still in the table.
C1_Witness ==
    /\ pc = "diff"
    /\ calls # <<>>
    /\ calls[1].op = "skip"
    /\ calls[1].key.role = "erase"
    /\ \E k \in Live : k.region = calls[1].key.region /\ k.role = "secondary"

\* C2: for a key deleted by update_blocking, the shutdown of its execution
\* completes first, then the ack map entry of its contract id is removed,
\* then its entry is erased from the table: the ack entry is not removed
\* while the execution still runs, and the entry is not erased while the ack
\* map may still hold its contract id.
C2_TeardownOrdering ==
    /\ pc \in {"step", "blocked", "teardown", "notify"} =>
         IsPrefix(Ops(calls), <<"reset", "delete_ack", "erase">>)
    /\ (pc = "step" /\ TeardownSteps[phase] = "delete_ack") =>
         /\ cur[1] \notin DOMAIN workers
         /\ cur[1] \in Live
         /\ ~executions[cur[1]].execution
    /\ (pc = "step" /\ TeardownSteps[phase] = "erase") =>
         /\ cur[1] \notin DOMAIN workers
         /\ cur[1] \in Live
         /\ executions[cur[1]].contract_id \notin DOMAIN ack_map

\* A key has gone through the whole teardown, and its execution had
\* published an ack while the reconciler waited for its shutdown.
C2_Witness ==
    /\ Ops(calls) = <<"reset", "delete_ack", "erase">>
    /\ last_ack # <<>>
    /\ last_ack[1].key = calls[3].key
    /\ last_ack[1].wrote
    /\ calls[2].cid = last_ack[1].cid

\* C4: every entry of the ack map belongs to an entry of the live execution
\* table whose recorded contract id is the entry's, in every state another
\* task can observe (and in the states between as well).
C4_AckMapConsistent ==
    \A cid \in DOMAIN ack_map : \E k \in Live : executions[k].contract_id = cid

\* Some contract id was replaced, another task can run, and an ack is held.
C4_Witness ==
    /\ Observable
    /\ superseded # {}
    /\ DOMAIN ack_map # {}
    /\ \E sc \in superseded : sc[2] \notin DOMAIN ack_map

\* C10: from its construction until its shutdown has completed, an
\* execution's key has an entry in the live execution table, so the lookup
\* of send_ack never fails.
C10_AckFindsEntry ==
    /\ crashed # "at"
    /\ DOMAIN workers \subseteq Live

\* The execution being shut down has called its acker while the reconciler
\* is blocked waiting for it.
C10_Witness ==
    /\ pc = "blocked"
    /\ last_ack # <<>>
    /\ last_ack[1].key = cur[1]
    /\ cur[1] \in Live

\* C3 as stated: once a pass has replaced contract id C1 of key K by C2, no
\* later send_ack(K, C1, ack) changes the ack map and the ack map never again
\* holds an entry for C1 (read on the states another task can observe).
C3_Original ==
    Observable =>
      \A sc \in superseded :
        /\ sc[2] \notin DOMAIN ack_map
        /\ (last_ack # <<>> /\ last_ack[1].key = sc[1] /\ last_ack[1].cid = sc[2])
             => ~last_ack[1].wrote

\* C3, amended: once a pass has replaced contract id C1 of key K by C2, then
\* for as long as K's recorded contract id is not C1 again, a send_ack(K, C1,
\* ack) leaves the ack map unchanged and the ack map holds no entry for C1.
C3_AckStaleness ==
    \A sc \in superseded :
        /\ sc[2] \in DOMAIN ack_map =>
             sc[1] \in Live /\ executions[sc[1]].contract_id = sc[2]
        /\ ( /\ last_ack # <<>>
             /\ last_ack[1].key = sc[1]
             /\ last_ack[1].cid = sc[2]
             /\ last_ack[1].stale ) => ~last_ack[1].wrote

\* An execution has sent an ack through the acker of a contract id that a
\* pass had replaced, and the ack was dropped.
C3_Witness ==
    /\ last_ack # <<>>
    /\ <<last_ack[1].key, last_ack[1].cid>> \in superseded
    /\ last_ack[1].stale
    /\ ~last_ack[1].wrote
    /\ last_ack[1].cid \notin DOMAIN ack_map

\* C5: at most one coroutine runs update_blocking at any time, whatever
\* notifications arrive, and the live execution table changes only in a step
\* of that one coroutine.
C5_SingleFlight ==
    /\ [](coros <= 1 /\ (pc # "idle" <=> coros = 1) /\ (running <=> coros = 1))
    /\ [][executions' # executions => pc \in {"diff", "step", "blocked"} /\ coros = 1]_vars

\* A change of the contract mapping has arrived while the one run is blocked
\* in a shutdown: it is queued and has started no second run.
C5_Witness ==
    /\ pc = "blocked"
    /\ unseen
    /\ queued
    /\ coros = 1

\* A notification that arrives while a run is in progress only sets the
\* pump's one flag; a returning run starts exactly one further run when the
\* flag is set, clearing it, and none otherwise.
C6_Coalesce ==
    /\ (pc # "idle" /\ contracts' # contracts) =>
         queued' /\ coros' = coros /\ pc' = pc
    /\ (pc = "ret" /\ queued) => pc' = "start" /\ ~queued' /\ coros' = coros
    /\ (pc = "ret" /\ ~queued) => pc' = "idle" /\ coros' = 0

\* C6: every change of the contract mapping, also one that arrives after a
\* pass took its snapshot or while the reconciler is blocked in a shutdown,
\* is eventually followed by a pass whose snapshot is taken after it; the
\* notifications of one run collapse into one further run.
C6_NoLostNotification ==
    /\ unseen ~> ~unseen
    /\ [][C6_Coalesce]_vars

\* A run has returned and the pump starts the further run; the mapping has
\* changed since that run's snapshot, that is, while it was blocked in a
\* shutdown.
C6_Witness ==
    /\ pc = "start"
    /\ unseen
    /\ running
    /\ ~queued

Quiet == pc = "idle" /\ ~queued /\ ~running

Converged ==
    /\ Live \subseteq Wanted
    /\ \A k \in Wanted \ Live : \E l \in Live : region_overlaps(l.region, k.region)
    /\ (\A c1 \in DOMAIN contracts : \A c2 \in DOMAIN contracts :
          c1 # c2 => ~region_overlaps(contracts[c1][1], contracts[c2][1]))
         => Live = Wanted

\* C7: once the contract mapping has stopped changing, the reconciler reaches
\* and stays in a state with no pass running or pending where every live key
\* is wanted by the mapping, every wanted key that is not live overlaps a
\* live key, and the live keys are exactly the wanted ones when the mapping's
\* regions do not overlap.
C7_Convergence == <>[](Quiet /\ Converged)

\* The reconciler is at rest with one wanted key live and another wanted key
\* deferred behind it.
C7_Witness ==
    /\ Quiet
    /\ Converged
    /\ Live # {}
    /\ Wanted \ Live # {}
    /\ ~unseen

UpdateCalls(log) == {i \in 1..Len(log) : log[i].op = "update_contract"}

CreateCalls(log) == {i \in 1..Len(log) : log[i].op \in {"insert", "construct"}}

\* What C9 asks of the iteration of update() on the smallest unvisited
\* contract id, and of the computation of the deletion set.
C9_Step ==
    /\ (pc = "diff" /\ todo # {}) =>
         LET cid == Min(todo)
             K == get_contract_key(server_id, contracts[cid])
         IN K \in Live =>
              IF executions[K].contract_id # cid
              THEN /\ DOMAIN executions' = DOMAIN executions
                   /\ executions'[K].contract_id = cid
                   /\ \A k \in Live \ {K} : executions'[k] = executions[k]
                   /\ DOMAIN workers' = DOMAIN workers
                   /\ cid \in workers'[K]
                   /\ Cardinality(UpdateCalls(calls')) = 1
                   /\ \A i \in UpdateCalls(calls') :
                        calls'[i].key = K /\ calls'[i].cid = cid
                   /\ CreateCalls(calls') = {}
                   /\ executions[K].contract_id \notin DOMAIN ack_map'
                   /\ K \in dont_delete'
              ELSE /\ executions' = executions
                   /\ workers' = workers
                   /\ ack_map' = ack_map
                   /\ calls' = <<>>
                   /\ K \in dont_delete'
    /\ (pc = "diff" /\ todo = {}) => to_delete' \cap dont_delete = {}

\* C9: a pass that finds the key of contract id C2 live under another
\* contract id C1 sets the recorded id to C2, calls update_contract on the
\* existing execution once, removes the ack map entry of C1, creates nothing
\* and keeps the key out of the deletion set; when the recorded id is C2
\* already, it does none of this.
C9_UpdateInPlace == [][C9_Step]_vars

\* A pass has just updated a live execution in place: the entry records the
\* new contract id and the old one is recorded as replaced.
C9_Witness ==
    /\ pc = "diff"
    /\ Ops(calls) = <<"set_contract_id", "update_contract", "delete_ack">>
    /\ calls[3].cid # calls[1].cid
    /\ executions[calls[1].key].contract_id = calls[1].cid
    /\ <<calls[3].key, calls[3].cid>> \in superseded

\* C8: get_contract_key keeps the region and derives Primary with nil
\* primary and branch exactly when the contract's primary is set and is self
\* (in the replica set or not); otherwise Secondary with the contract's
\* primary (nil if none) and branch exactly when self is a replica; otherwise
\* Erase with nil primary and branch.
C8_KeyDerivation ==
    kout # <<>> =>
      LET self == kin[1]
          region == kin[2][1]
          c == kin[2][2]
          k == kout[1]
          is_primary == c.primary # NoPrimary /\ c.primary = self
          is_replica == self \in c.replicas
      IN /\ k.region = region
         /\ k.role \in {"primary", "secondary", "erase"}
         /\ k.role = "primary" <=> is_primary
         /\ k.role = "secondary" <=> (~is_primary /\ is_replica)
         /\ k.role = "erase" <=> (~is_primary /\ ~is_replica)
         /\ k.role = "primary" => k.primary = Nil /\ k.branch = Nil
         /\ k.role = "erase" => k.primary = Nil /\ k.branch = Nil
         /\ k.role = "secondary" =>
              /\ k.branch = c.branch
              /\ c.primary = NoPrimary => k.primary = Nil
              /\ c.primary # NoPrimary => k.primary = c.primary

\* The key of a contract whose primary is self while self is a replica too.
C8_Witness ==
    /\ kout # <<>>
    /\ kin[2][2].primary = kin[1]
    /\ kin[1] \in kin[2][2].replicas
    /\ kout[1].role = "primary"

\* What C11 asks of the steps of update(): the loop over the contracts and
\* the computation of the deletion set.
C11_Step ==
    /\ pc = "diff" =>
         /\ contracts' = contracts
         /\ DOMAIN executions \subseteq DOMAIN executions'
         /\ DOMAIN workers \subseteq DOMAIN workers'
         /\ \A k \in Live : executions'[k].execution = executions[k].execution
    /\ (pc = "diff" /\ todo = {}) =>
         /\ to_delete' = {k \in Live : k \notin Wanted}
         /\ executions' = executions
         /\ workers' = workers
         /\ ack_map' = ack_map

\* C11: the deletion set a diff pass returns is exactly the set of keys that
\* are live at the end of the pass and are the derived key of no contract of
\* the snapshot; the diff pass removes no entry from the live execution table
\* and shuts down no execution.
C11_DeletionSet == [][C11_Step]_vars

\* update() has just returned a deletion set that is not empty and leaves a
\* wanted key in the table.
C11_Witness ==
    /\ pc = "teardown"
    /\ to_delete # {}
    /\ td_left = to_delete
    /\ to_delete \subseteq Live
    /\ Live \ to_delete # {}
    /\ to_delete \cap Wanted = {}

\* What C12 asks of update_blocking's steps after update() has returned.
C12_Step ==
    /\ (pc = "diff" /\ todo = {} /\ to_delete' = {}) =>
         /\ pc' = "ret"
         /\ UNCHANGED pumpvars
    /\ (pc = "diff" /\ todo = {} /\ to_delete' # {}) => pc' = "teardown"
    /\ pc \in {"teardown", "step"} => UNCHANGED pumpvars
    /\ pc = "notify" =>
         /\ to_delete # {}
         /\ td_left = {}
         /\ to_delete \cap Live = {}
         /\ to_delete \cap DOMAIN workers = {}
         /\ running'
         /\ queued'
         /\ coros' = coros
         /\ pc' = "ret"

\* C12: when a pass's deletion set is not empty, the pump is notified once
\* all of that pass's deletions have completed, and a further pass takes its
\* snapshot afterwards, also when the contract mapping never changes again;
\* when the deletion set is empty, the pass requests no further run.
C12_RerunAfterDeletion ==
    /\ [][C12_Step]_vars
    /\ (pc = "teardown") ~> (pc = "notify")
    /\ (pc = "notify") ~> (pc = "diff")

\* The pump starts the further run that a pass requested after its
\* deletions; the mapping has not changed since that pass's snapshot.
C12_Witness ==
    /\ pc = "start"
    /\ tore
    /\ ~unseen
    /\ ~queued
    /\ passes = 1

\* cid is the contract at which update()'s loop meets its derived key first.
FirstOfKey(cid) ==
    \A c \in DOMAIN contracts :
        c < cid => get_contract_key(server_id, contracts[c])
                     # get_contract_key(server_id, contracts[cid])

\* The pairs of contracts of the snapshot that C13 is about: the first is
\* iterated before the second, their derived keys differ and overlap in
\* region, and neither key was live when the pass began.
Rivals ==
    { p \in (DOMAIN contracts) \X (DOMAIN contracts) :
        LET K1 == get_contract_key(server_id, contracts[p[1]])
            K2 == get_contract_key(server_id, contracts[p[2]])
        IN /\ p[1] < p[2]
           /\ FirstOfKey(p[1])
           /\ FirstOfKey(p[2])
           /\ K1 # K2
           /\ region_overlaps(K1.region, K2.region)
           /\ K1 \notin Live \ created
           /\ K2 \notin Live \ created }

\* C13 as stated, read when update()'s loop over the contracts has ended:
\* of two such contracts the pass has created the execution of the first
\* and skipped the second.
C13_Original ==
    (pc = "diff" /\ todo = {}) =>
      \A p \in Rivals :
        LET K1 == get_contract_key(server_id, contracts[p[1]])
            K2 == get_contract_key(server_id, contracts[p[2]])
        IN K1 \in created /\ K2 \notin created /\ K2 \in skipped

\* C13, amended: of two such contracts a pass never creates both; when it
\* creates the first it skips the second; it fails to create the first only
\* when another live execution overlaps the first's region; and no step
\* creates an entry whose region overlaps an entry that is in the table.
C13_TieBreak ==
    /\ []((pc = "diff" /\ todo = {}) =>
            \A p \in Rivals :
              LET K1 == get_contract_key(server_id, contracts[p[1]])
                  K2 == get_contract_key(server_id, contracts[p[2]])
              IN /\ ~(K1 \in created /\ K2 \in created)
                 /\ K1 \in created => (K2 \in skipped /\ K2 \notin Live)
                 /\ K1 \notin created =>
                      /\ K1 \in skipped
                      /\ \E l \in Live \ {K1} : region_overlaps(l.region, K1.region))
    /\ [][\A K \in DOMAIN executions' \ DOMAIN executions :
             \A l \in Live : ~region_overlaps(l.region, K.region)]_vars

\* A pass over two such contracts has ended with the first created and the
\* second skipped, the table having been empty before.
C13_Witness ==
    /\ pc = "diff"
    /\ todo = {}
    /\ Live = created
    /\ \E p \in Rivals :
         /\ get_contract_key(server_id, contracts[p[1]]) \in created
         /\ get_contract_key(server_id, contracts[p[2]]) \in skipped

C14_Step ==
    (pc = "diff" /\ todo # {}) =>
      LET K == get_contract_key(server_id, contracts[Min(todo)]) IN
      K \notin Live =>
        IF \E l \in Live : region_overlaps(l.region, K.region)
        THEN /\ executions' = executions
             /\ K \in skipped'
             /\ created' = created
        ELSE /\ DOMAIN executions' = Live \cup {K}
             /\ K \in created'
             /\ skipped' = skipped

SecondRun == pc = "diff" /\ passes >= 2 /\ ~tore

\* The contract ids of the mapping that derive key.
Deriving(key) ==
    {c \in DOMAIN contracts : get_contract_key(server_id, contracts[c]) = key}

\* C15 as stated: the second run has no effect, for every mapping: it
\* creates nothing, changes no recorded contract id, calls no
\* update_contract, removes no ack, and returns the same deletion set.
C15_Original ==
    SecondRun =>
      /\ \A i \in 1..Len(calls) : calls[i].op = "skip"
      /\ todo = {} => deletion_set(executions, dont_delete) = {}

\* C15, amended: the second run creates no execution and returns the same
\* deletion set, and it changes a recorded contract id, calls
\* update_contract or removes an ack only for a key that two different
\* contract ids of the mapping derive; for the other keys it has no effect.
C15_Idempotence ==
    SecondRun =>
      /\ \A i \in 1..Len(calls) :
           /\ calls[i].op \notin {"insert", "construct"}
           /\ calls[i].op # "skip" => Cardinality(Deriving(calls[i].key)) >= 2
      /\ created = {}
      /\ todo = {} => deletion_set(executions, dont_delete) = {}

\* The second run in succession has gone through a mapping whose contracts
\* derive different keys, one live and one deferred, and has changed
\* nothing.
C15_Witness ==
    /\ SecondRun
    /\ todo = {}
    /\ Live # {}
    /\ skipped # {}
    /\ \A k \in Wanted : Cardinality(Deriving(k)) = 1

\* Event e occurs in log before position i.
Before(log, i, e) == \E j \in 1..(i - 1) : log[j] = e

\* What C16 asks of the effects of one iteration of update(), in their
\* order: the recorded id is set, or the entry inserted, before the acker
\* is handed over, and an ack sent from inside the hand-over through the
\* acker of the new id is in the ack map when the iteration ends.
C16_Step ==
    (pc = "diff" /\ todo # {}) =>
      \A i \in 1..Len(calls') :
        LET e == calls'[i] IN
        /\ e.op = "update_contract" =>
             Before(calls', i, Ev("set_contract_id", e.key, e.cid))
        /\ e.op = "construct" => Before(calls', i, Ev("insert", e.key, e.cid))
        /\ e.op = "send_ack" =>
             /\ \/ Before(calls', i, Ev("update_contract", e.key, calls'[1].cid))
                \/ Before(calls', i, Ev("construct", e.key, calls'[1].cid))
             /\ e.cid = calls'[1].cid =>
                  /\ e.key \in DOMAIN executions'
                  /\ executions'[e.key].contract_id = e.cid
                  /\ e.cid \in DOMAIN ack_map'

\* C16: the recorded contract id of a key is set to the new id, and on
\* creation the entry is inserted, before the acker bound to the key and the
\* new id is handed to the execution; so an ack sent through that acker,
\* also from inside update_contract or the constructor, is published under
\* the new id as long as that id is the key's recorded one.
C16_AckerOrdering ==
    /\ [][C16_Step]_vars
    /\ [](last_ack # <<>> => (last_ack[1].wrote <=> ~last_ack[1].stale))

\* update_contract has sent an ack through the acker of the new contract id
\* before returning, and the ack is in the ack map.
C16_Witness ==
    /\ pc = "diff"
    /\ Ops(calls) = <<"set_contract_id", "update_contract", "send_ack", "delete_ack">>
    /\ calls[3].cid = calls[1].cid
    /\ calls[1].cid \in DOMAIN ack_map
    /\ calls[4].cid \notin DOMAIN ack_map

\* The live executions whose region overlaps that of key.
Blockers(key) == {l \in Live : region_overlaps(l.region, key.region)}

C17_Step ==
    (pc = "diff" /\ todo = {}) =>
      \A k \in skipped :
        /\ Blockers(k) \ Wanted # {} =>
             (pc' = "teardown" /\ Blockers(k) \ Wanted \subseteq to_delete')
        /\ Blockers(k) \cap Wanted \cap to_delete' = {}

TwoPasses ==
    /\ passes <= 2
    /\ passes = 2 =>
         /\ pc \notin {"teardown", "step", "blocked", "notify"}
         /\ (pc = "diff" /\ todo = {}) => deletion_set(executions, dont_delete) = {}
         /\ created # {} => tore
         /\ pc = "ret" => ~queued

\* C18 as stated: of the at most two passes after the last change, the
\* second only creates executions.
C18_Original ==
    /\ TwoPasses
    /\ (passes = 2 /\ pc = "diff") =>
         \A i \in 1..Len(calls) :
           calls[i].op \in {"insert", "construct", "send_ack", "skip"}

\* C18, amended: once the mapping has stopped changing, at most two passes
\* take their snapshot after the last change; the second has an empty
\* deletion set and requests no further pass; it creates executions only
\* in regions the first pass freed, and beyond that it only updates in
\* place the keys that two different contract ids of the mapping derive.
C18_BoundedPasses ==
    /\ TwoPasses
    /\ (passes = 2 /\ pc = "diff") =>
         \A i \in 1..Len(calls) :
           calls[i].op \notin {"insert", "construct", "send_ack", "skip"} =>
             Cardinality(Deriving(calls[i].key)) >= 2

\* The second pass after the last change has created an execution in a
\* region that the deletions of the first pass freed, and is about to
\* return an empty deletion set.
C18_Witness ==
    /\ passes = 2
    /\ pc = "diff"
    /\ todo = {}
    /\ tore
    /\ created # {}
    /\ ~queued

\* What C19 asks of every step: a contract id keeps its (region, contract)
\* and is not issued twice; an entry that is inserted, or whose recorded
\* contract id changes, records an id of the mapping that derives the
\* entry's key; and the teardown's removal from the ack map takes the ack
\* of no other live execution.
C19_Step ==
    /\ \A c \in DOMAIN contracts' :
         IF c \in DOMAIN contracts THEN contracts'[c] = contracts[c]
         ELSE c = next_id /\ next_id' > next_id
    /\ \A K \in DOMAIN executions' :
         (K \notin Live \/ executions'[K].contract_id # executions[K].contract_id) =>
           /\ executions'[K].contract_id \in DOMAIN contracts
           /\ K = get_contract_key(server_id, contracts[executions'[K].contract_id])
    /\ (pc = "step" /\ TeardownSteps[phase] = "delete_ack") =>
         \A k \in Live \ {cur[1]} :
           /\ executions[k].contract_id # executions[cur[1]].contract_id
           /\ executions[k].contract_id \in DOMAIN ack_map =>
                executions[k].contract_id \in DOMAIN ack_map'

\* C19: contract ids denoting one (region, contract) each for ever, every
\* entry of the live execution table records a contract id that derives the
\* entry's key; so no two entries record the same contract id, and the
\* teardown of one execution removes the ack of no other live execution.
C19_KeyContractConsistent ==
    /\ [](\A K \in Live :
             /\ executions[K].contract_id < next_id
             /\ executions[K].contract_id \in DOMAIN contracts =>
                  K = get_contract_key(server_id, contracts[executions[K].contract_id])
             /\ \A K2 \in Live \ {K} :
                  executions[K2].contract_id # executions[K].contract_id)
    /\ [][C19_Step]_vars

\* The teardown has removed the ack map entry of an execution whose
\* contract has left the mapping, and the ack of another live execution is
\* still in the ack map.
C19_Witness ==
    /\ pc = "step"
    /\ TeardownSteps[phase] = "erase"
    /\ Ops(calls) = <<"reset", "delete_ack">>
    /\ calls[2].cid \notin DOMAIN contracts
    /\ \E k \in Live \ {cur[1]} : executions[k].contract_id \in DOMAIN ack_map

\* C20: every key of a pass's deletion set is in the live execution table
\* when the teardown loop reaches it, so the guarantee on the lookup never
\* fails and the entry the loop works on stays in the table until the loop
\* erases it, whatever changes of the mapping, notifications and acks occur
\* while earlier keys of the deletion set are blocked in their shutdown.
C20_TeardownLookup ==
    /\ crashed \notin {"guarantee", "dangling"}
    /\ pc \in {"teardown", "step", "blocked"} => td_left \subseteq Live
    /\ pc \in {"step", "blocked"} =>
         /\ cur # <<>>
         /\ cur[1] \in to_delete
         /\ cur[1] \in Live
    /\ pc = "teardown" => td_left # {}

\* The teardown loop is about to look up a further key of its deletion set;
\* while it was blocked in the shutdown of an earlier key the mapping
\* changed, the pump was notified and an execution sent an ack.
C20_Witness ==
    /\ pc = "teardown"
    /\ td_left # {}
    /\ td_left # to_delete
    /\ unseen
    /\ queued
    /\ last_ack # <<>>

====
